---- MODULE Spec2Model ----
(***************************************************************************)
(* Model of run-tests.py: read README.md, take the text after the first    *)
(* "## Examples", interpolate it into the Examples.elm template, overwrite *)
(* src/Examples.elm and run "cd BASE && elm-doc-test && elm-test" through  *)
(* os.system.  Texts are sequences of one-character strings.               *)
(***************************************************************************)
EXTENDS Integers, Sequences, FiniteSets, TLC

\* ------------------------------------------------------------------ bounds
MaxChunks == 3      \* a README is a concatenation of at most MaxChunks chunks
MaxRuns == 2        \* successive runs of the script over the same README

\* ------------------------------------------------------------- text values
\* the separator given to str.partition
Marker ==
    << "#", "#", " ", "E", "x", "a", "m", "p", "l", "e", "s" >>

\* the f-string of elm_src up to the {examples} field
TemplateHead ==
    << "\n", "m", "o", "d", "u", "l", "e", " ", "E", "x", "a", "m", "p",
       "l", "e", "s", " ", "e", "x", "p", "o", "s", "i", "n", "g", " ", "(",
       ".", ".", ")", "\n", "\n", "{", "-", "|", " ", "A", "U", "T", "O",
       " ", "G", "E", "N", "E", "R", "A", "T", "E", "D", " ", "-", "-", " ",
       "D", "O", " ", "N", "O", "T", " ", "E", "D", "I", "T", " ", "-", "}",
       "\n", "\n", "{", "-", "|", "\n" >>

\* the f-string of elm_src after the {examples} field
TemplateTail ==
    << "\n", "-", "}", "\n", "t", "e", "s", "t", " ", ":", " ", "M", "a",
       "y", "b", "e", " ", "N", "e", "v", "e", "r", "\n", "t", "e", "s",
       "t", " ", "=", "\n", " ", " ", " ", " ", "N", "o", "t", "h", "i",
       "n", "g", "\n" >>

\* README building blocks: the marker, plain text, the two Elm comment
\* tokens and a proper prefix of the marker
Chunks ==
    { Marker, << "a", "\n" >>, << "-", "}" >>, << "{", "-" >>,
      << "#", "#", " " >> }

RECURSIVE Texts(_)
Texts(n) ==
    IF n = 0 THEN { << >> }
    ELSE LET shorter == Texts(n - 1)
         IN  shorter \cup { t \o c : t \in shorter, c \in Chunks }

\* previous content of src/Examples.elm, when the file exists
OldText == << "o", "l", "d", "\n" >>

\* ----------------------------------------------------------- str functions
MatchAt(s, pat, i) ==
    /\ i >= 1
    /\ i + Len(pat) - 1 <= Len(s)
    /\ SubSeq(s, i, i + Len(pat) - 1) = pat

\* str.find from position i: lowest index >= i where pat occurs, 0 if none
RECURSIVE FindFrom(_, _, _)
FindFrom(s, pat, i) ==
    IF i + Len(pat) - 1 > Len(s) THEN 0
    ELSE IF MatchAt(s, pat, i) THEN i
    ELSE FindFrom(s, pat, i + 1)

\* str.rfind below position i: highest index <= i where pat occurs, 0 if none
RECURSIVE RFindFrom(_, _, _)
RFindFrom(s, pat, i) ==
    IF i < 1 THEN 0
    ELSE IF MatchAt(s, pat, i) THEN i
    ELSE RFindFrom(s, pat, i - 1)

\* str.rpartition's split point: the last occurrence of sep, 0 if none
SplitPointLast(s, sep) == RFindFrom(s, sep, Len(s))

\* the split point of str.partition: the first occurrence of sep, 0 if none
SplitPoint(s, sep) == FindFrom(s, sep, 1)

\* a miss that keeps the text in the last part, as str.split(sep)[-1] does
NotFoundKeep(s) == << << >>, << >>, s >>

\* what str.partition returns when sep does not occur
NotFound(s) == << s, << >>, << >> >>

\* str.partition(sep): (before, sep, after) around the first occurrence
Partition(s, sep) ==
    LET i == SplitPoint(s, sep)
    IN  IF i = 0 THEN NotFound(s)
        ELSE << SubSeq(s, 1, i - 1), sep, SubSeq(s, i + Len(sep), Len(s)) >>

\* t[0]
First(t) == t[1]

\* t[-1]
Last(t) == t[Len(t)]

\* the f-string: template with {examples} substituted verbatim
Format(ex) == TemplateHead \o ex \o TemplateTail

\* open(path, "a"): the new text lands after the old content
AppendText(old, new) == [exists |-> TRUE, text |-> old.text \o new]

\* Path.write_text: open(path, "w") truncates, then writes the text
WriteText(old, new) == [exists |-> TRUE, text |-> new]

\* ------------------------------------------------------- control structure
\* statement order with system() placed before the write
PcAfterSwapped(p) ==
    CASE p = "read" -> "partition"
      [] p = "partition" -> "format"
      [] p = "format" -> "system"
      [] p = "system" -> "write"
      [] p = "write" -> "end"

\* the statement that follows statement p in the script
PcAfter(p) ==
    CASE p = "read" -> "partition"
      [] p = "partition" -> "format"
      [] p = "format" -> "write"
      [] p = "write" -> "system"
      [] p = "system" -> "end"

\* an exception swallowed by try/except: the script carries on
RaiseIgnored(p) == PcAfter(p)

\* no try/except anywhere: an exception raised by statement p ends the script
Raise(p) == "error"

\* ";" in place of "&&": the next command runs whatever the status
AndThenAlways(status) == TRUE

\* sh "a && b": b runs only when a exited with status 0
AndThen(status) == status = 0

\* exit codes an external tool may report
ToolCodes == { 0, 1 }

\* os.system returns the wait status: the exit code in the high byte
WaitStatus(code) == code * 256

\* what system() returns when no shell could be run: fork failed (-1), or
\* the child could not exec sh (reported as exit code 127)
SpawnFailures == { -1, WaitStatus(127) }

VARIABLES
    readme,      \* content of README.md
    readable,    \* whether README.md can be read
    outFile,     \* src/Examples.elm: [exists, text]
    writable,    \* whether src/Examples.elm can be opened for writing
    pc,          \* statement the script is at
    src,         \* script variable src
    examples,    \* script variable examples
    elm_src,     \* script variable elm_src
    wrote,       \* write_text has completed in this run
    errAt,       \* statement that raised, "" if none
    shpc,        \* position of the shell inside the command line
    shStatus,    \* the shell's $?
    cdState,     \* "none", "ok", "fail"
    docState,    \* elm-doc-test: "none", "running", "exited"
    docCode,     \* exit code of elm-doc-test
    testState,   \* elm-test: "none", "running", "exited"
    testCode,    \* exit code of elm-test
    spawnFailed, \* system() could not run the shell
    sysResult,   \* value returned by system(): << >> or << status >>
    exitStatus,  \* exit status of the script: << >> or << status >>
    run,         \* number of the current run
    prevOut      \* src/Examples.elm as the previous run left it

vars ==
    << readme, readable, outFile, writable, pc, src, examples, elm_src,
       wrote, errAt, shpc, shStatus, cdState, docState, docCode, testState,
       testCode, spawnFailed, sysResult, exitStatus, run, prevOut >>

files == << readme, readable, writable >>
locals == << src, examples, elm_src >>
tools == << cdState, docState, docCode, testState, testCode >>
shell == << shpc, shStatus, cdState, docState, docCode, testState, testCode >>
history == << run, prevOut >>

Missing == [exists |-> FALSE, text |-> << >>]

Init ==
    /\ readme \in Texts(MaxChunks)
    /\ readable \in BOOLEAN
    /\ outFile \in { Missing, [exists |-> TRUE, text |-> OldText] }
    /\ writable \in BOOLEAN
    /\ pc = "read"
    /\ src = << >>
    /\ examples = << >>
    /\ elm_src = << >>
    /\ wrote = FALSE
    /\ errAt = ""
    /\ shpc = "idle"
    /\ shStatus = 0
    /\ cdState = "none"
    /\ docState = "none"
    /\ docCode = 0
    /\ testState = "none"
    /\ testCode = 0
    /\ spawnFailed = FALSE
    /\ sysResult = << >>
    /\ exitStatus = << >>
    /\ run = 1
    /\ prevOut = outFile

\* ---------------------------------------------------------------- line 9
ReadText ==
    /\ pc = "read"
    /\ readable
    /\ src' = readme
    /\ pc' = PcAfter("read")
    /\ UNCHANGED << files, outFile, examples, elm_src, wrote, errAt, shell,
                    spawnFailed, sysResult, exitStatus, history >>

ReadTextFails ==
    /\ pc = "read"
    /\ ~readable
    /\ errAt' = "read"
    /\ pc' = Raise("read")
    /\ UNCHANGED << files, outFile, locals, wrote, shell, spawnFailed,
                    sysResult, exitStatus, history >>

\* --------------------------------------------------------------- line 10
PartitionExamples ==
    /\ pc = "partition"
    /\ examples' = Last(Partition(src, Marker))
    /\ pc' = PcAfter("partition")
    /\ UNCHANGED << files, outFile, src, elm_src, wrote, errAt, shell,
                    spawnFailed, sysResult, exitStatus, history >>

\* ---------------------------------------------------------- lines 12 - 23
FormatModule ==
    /\ pc = "format"
    /\ elm_src' = Format(examples)
    /\ pc' = PcAfter("format")
    /\ UNCHANGED << files, outFile, src, examples, wrote, errAt, shell,
                    spawnFailed, sysResult, exitStatus, history >>

\* --------------------------------------------------------------- line 24
WriteModule ==
    /\ pc = "write"
    /\ writable
    /\ outFile' = WriteText(outFile, elm_src)
    /\ wrote' = TRUE
    /\ pc' = PcAfter("write")
    /\ UNCHANGED << files, locals, errAt, shell, spawnFailed, sysResult,
                    exitStatus, history >>

WriteModuleFails ==
    /\ pc = "write"
    /\ ~writable
    /\ errAt' = "write"
    /\ pc' = Raise("write")
    /\ UNCHANGED << files, outFile, locals, wrote, shell, spawnFailed,
                    sysResult, exitStatus, history >>

\* --------------------------------------------------------------- line 26
\* system() starts sh -c "cd BASE && elm-doc-test && elm-test" and waits
SystemSpawn ==
    /\ pc = "system"
    /\ shpc = "idle"
    /\ shpc' = "cd"
    /\ UNCHANGED << files, outFile, locals, wrote, errAt, pc, shStatus,
                    tools, spawnFailed, sysResult, exitStatus, history >>

\* no shell could be run: system() returns a failure value, raises nothing
SystemSpawnFails ==
    /\ pc = "system"
    /\ shpc = "idle"
    /\ \E r \in SpawnFailures : sysResult' = << r >>
    /\ spawnFailed' = TRUE
    /\ pc' = PcAfter("system")
    /\ UNCHANGED << files, outFile, locals, wrote, errAt, shell, exitStatus,
                    history >>

ShellCd ==
    /\ shpc = "cd"
    /\ \E ok \in BOOLEAN :
          /\ cdState' = IF ok THEN "ok" ELSE "fail"
          /\ shStatus' = IF ok THEN 0 ELSE 1
    /\ shpc' = "doc"
    /\ UNCHANGED << files, outFile, locals, wrote, errAt, pc, docState,
                    docCode, testState, testCode, spawnFailed, sysResult,
                    exitStatus, history >>

DocTestStart ==
    /\ shpc = "doc"
    /\ AndThen(shStatus)
    /\ docState' = "running"
    /\ shpc' = "docwait"
    /\ UNCHANGED << files, outFile, locals, wrote, errAt, pc, shStatus,
                    cdState, docCode, testState, testCode, spawnFailed,
                    sysResult, exitStatus, history >>

DocTestSkipped ==
    /\ shpc = "doc"
    /\ ~AndThen(shStatus)
    /\ shpc' = "test"
    /\ UNCHANGED << files, outFile, locals, wrote, errAt, pc, shStatus,
                    tools, spawnFailed, sysResult, exitStatus, history >>

DocTestExit ==
    /\ shpc = "docwait"
    /\ \E c \in ToolCodes :
          /\ docCode' = c
          /\ shStatus' = c
    /\ docState' = "exited"
    /\ shpc' = "test"
    /\ UNCHANGED << files, outFile, locals, wrote, errAt, pc, cdState,
                    testState, testCode, spawnFailed, sysResult, exitStatus,
                    history >>

ElmTestStart ==
    /\ shpc = "test"
    /\ AndThen(shStatus)
    /\ testState' = "running"
    /\ shpc' = "testwait"
    /\ UNCHANGED << files, outFile, locals, wrote, errAt, pc, shStatus,
                    cdState, docState, docCode, testCode, spawnFailed,
                    sysResult, exitStatus, history >>

ElmTestSkipped ==
    /\ shpc = "test"
    /\ ~AndThen(shStatus)
    /\ shpc' = "done"
    /\ UNCHANGED << files, outFile, locals, wrote, errAt, pc, shStatus,
                    tools, spawnFailed, sysResult, exitStatus, history >>

ElmTestExit ==
    /\ shpc = "testwait"
    /\ \E c \in ToolCodes :
          /\ testCode' = c
          /\ shStatus' = c
    /\ testState' = "exited"
    /\ shpc' = "done"
    /\ UNCHANGED << files, outFile, locals, wrote, errAt, pc, cdState,
                    docState, docCode, spawnFailed, sysResult, exitStatus,
                    history >>

\* the shell has exited: system() returns its wait status, which the script
\* drops (the call is an expression statement)
SystemReturn ==
    /\ pc = "system"
    /\ shpc = "done"
    /\ sysResult' = << WaitStatus(shStatus) >>
    /\ shpc' = "exited"
    /\ pc' = PcAfter("system")
    /\ UNCHANGED << files, outFile, locals, wrote, errAt, shStatus, tools,
                    spawnFailed, exitStatus, history >>

\* the interpreter reaches the end of the file: exit status 0
ScriptEnd ==
    /\ pc = "end"
    /\ exitStatus' = << 0 >>
    /\ pc' = "exited"
    /\ UNCHANGED << files, outFile, locals, wrote, errAt, shell, spawnFailed,
                    sysResult, history >>

\* uncaught exception: traceback on stderr, exit status 1
Traceback ==
    /\ pc = "error"
    /\ exitStatus' = << 1 >>
    /\ pc' = "exited"
    /\ UNCHANGED << files, outFile, locals, wrote, errAt, shell, spawnFailed,
                    sysResult, history >>

\* the script is started again over the same files
Rerun ==
    /\ pc = "exited"
    /\ run < MaxRuns
    /\ run' = run + 1
    /\ prevOut' = outFile
    /\ pc' = "read"
    /\ src' = << >>
    /\ examples' = << >>
    /\ elm_src' = << >>
    /\ wrote' = FALSE
    /\ errAt' = ""
    /\ shpc' = "idle"
    /\ shStatus' = 0
    /\ cdState' = "none"
    /\ docState' = "none"
    /\ docCode' = 0
    /\ testState' = "none"
    /\ testCode' = 0
    /\ spawnFailed' = FALSE
    /\ sysResult' = << >>
    /\ exitStatus' = << >>
    /\ UNCHANGED << files, outFile >>

Next ==
    \/ ReadText
    \/ ReadTextFails
    \/ PartitionExamples
    \/ FormatModule
    \/ WriteModule
    \/ WriteModuleFails
    \/ SystemSpawn
    \/ SystemSpawnFails
    \/ ShellCd
    \/ DocTestStart
    \/ DocTestSkipped
    \/ DocTestExit
    \/ ElmTestStart
    \/ ElmTestSkipped
    \/ ElmTestExit
    \/ SystemReturn
    \/ ScriptEnd
    \/ Traceback
    \/ Rerun

Spec == Init /\ [][Next]_vars

\* ------------------------------------------------- reading the output back
\* every position at which pat occurs in s
Occurrences(s, pat) == { i \in 1..Len(s) : MatchAt(s, pat, i) }

Min(S) == CHOOSE x \in S : \A y \in S : x <= y

DocOpen == << "{", "-", "|" >>
CommentOpen == << "{", "-" >>
CommentClose == << "-", "}" >>

\* where the second "{-|" of a generated module starts (the first one opens
\* the AUTO GENERATED comment)
DocOpenPos(text) == FindFrom(text, DocOpen, FindFrom(text, DocOpen, 1) + 1)

\* where the last "-}" of a generated module starts: nothing after the
\* template's own closing token contains one
TemplateClosePos(text) == RFindFrom(text, CommentClose, Len(text))

\* the text between the second "{-|" and the template's closing "-}"
DocBlock(text) ==
    SubSeq(text, DocOpenPos(text) + Len(DocOpen), TemplateClosePos(text) - 1)

\* Elm block comments nest: scanning from position i inside a comment at
\* the given depth, the position of the "-}" that brings the depth to 0
\* (0 if the text ends first)
RECURSIVE CommentEnd(_, _, _)
CommentEnd(text, i, depth) ==
    IF i > Len(text) THEN 0
    ELSE IF MatchAt(text, CommentClose, i)
         THEN IF depth = 1 THEN i ELSE CommentEnd(text, i + 2, depth - 1)
    ELSE IF MatchAt(text, CommentOpen, i)
         THEN CommentEnd(text, i + 2, depth + 1)
    ELSE CommentEnd(text, i + 1, depth)

\* where the documentation comment of a generated module really closes
DocClosePos(text) ==
    CommentEnd(text, DocOpenPos(text) + Len(DocOpen), 1)

NL == << "\n" >>

MarkerCount == Cardinality(Occurrences(readme, Marker))

\* the README text after the marker occurrence that starts at position i
After(i) == SubSeq(readme, i + Len(Marker), Len(readme))

\* examples has been assigned in this run
Partitioned == pc \in { "format", "write", "system", "end" } \/ wrote

\* --------------------------------------------------------------------- C1
\* C1 as stated: with exactly one marker in the README, the text between
\* the second "{-|" and the template's closing "-}" of the written module
\* equals the README text after the marker, nothing added.
C1_DocBlockIsSegment ==
    (wrote /\ MarkerCount = 1) =>
        DocBlock(outFile.text) = After(Min(Occurrences(readme, Marker)))

\* C1 amended: with exactly one marker in the README, the text between the
\* second "{-|" and the template's closing "-}" of the written module is a
\* line break, then the README text after the marker, then a line break.
C1_DocBlockIsPaddedSegment ==
    (wrote /\ MarkerCount = 1) =>
        DocBlock(outFile.text) =
            NL \o After(Min(Occurrences(readme, Marker))) \o NL

C1_Witness ==
    /\ wrote
    /\ MarkerCount = 1
    /\ Len(After(Min(Occurrences(readme, Marker)))) > 0
    /\ Min(Occurrences(readme, Marker)) > 1
    /\ pc = "exited"

\* --------------------------------------------------------------------- C2
\* C2 as stated: with no marker in the README the examples segment is
\* empty, the documentation-comment block of the written module is empty,
\* and no statement other than a file access raises.
C2_NoMarkerEmptyBlock ==
    MarkerCount = 0 =>
        /\ Partitioned => examples = << >>
        /\ wrote => DocBlock(outFile.text) = << >>
        /\ errAt \in { "", "read", "write" }

\* C2 amended: with no marker in the README the examples segment is empty,
\* the documentation-comment block of the written module holds only the
\* template's two line breaks, the only statements that raise are the file
\* accesses, and a run whose read and write succeed goes on to system().
C2_NoMarkerBlankBlock ==
    MarkerCount = 0 =>
        /\ Partitioned => examples = << >>
        /\ wrote => DocBlock(outFile.text) = NL \o NL
        /\ errAt \in { "", "read", "write" }
        /\ (readable /\ writable /\ pc = "exited") =>
              (wrote /\ sysResult # << >>)

C2_Witness ==
    /\ MarkerCount = 0
    /\ Len(readme) > 0
    /\ wrote
    /\ testState = "exited"
    /\ pc = "exited"

\* --------------------------------------------------------------------- C3
\* C3: once a later run of the script over the same README has exited,
\* src/Examples.elm holds exactly what the previous run left in it, whatever
\* the file held (or if it was missing) before the first run.
C3_SecondRunSameContent ==
    (run >= 2 /\ (wrote \/ pc = "exited")) => outFile = prevOut

C3_Witness ==
    /\ run = 2
    /\ wrote
    /\ pc = "exited"
    /\ Len(examples) > 0

\* --------------------------------------------------------------------- C4
\* C4 as stated: whatever the examples segment contains, the documentation
\* comment of the written module closes only at the template's own "-}",
\* so that the segment lies wholly inside it and the declaration of test
\* follows the comment.
C4_CommentClosesAtTemplate ==
    wrote =>
        /\ DocOpenPos(outFile.text) + Len(DocOpen) = Len(TemplateHead)
        /\ DocClosePos(outFile.text) = TemplateClosePos(outFile.text)
        /\ TemplateClosePos(outFile.text) =
              Len(TemplateHead) + Len(examples) + 2

\* --------------------------------------------------------------------- C5
\* C5: when reading README.md or writing src/Examples.elm fails, the script
\* ends with an uncaught error at that statement (exit status 1), no shell
\* and no tool is ever started in that run, and after a failed read the
\* output file is as the run found it.
C5_FileErrorStopsRun ==
    /\ errAt # "" =>
          /\ shpc = "idle"
          /\ cdState = "none" /\ docState = "none" /\ testState = "none"
          /\ sysResult = << >>
          /\ ~wrote
          /\ pc \in { "error", "exited" }
          /\ pc = "exited" => exitStatus = << 1 >>
    /\ errAt = "read" => outFile = prevOut
    /\ (~readable /\ pc # "read") => errAt = "read"
    /\ (readable /\ ~writable /\ pc = "exited") => errAt = "write"

C5_Witness ==
    /\ errAt = "write"
    /\ ~outFile.exists
    /\ pc = "exited"

\* --------------------------------------------------------------------- C6
\* C6: the shell and the tools run only after write_text has completed with
\* the generated text in the file; elm-doc-test starts only after the cd
\* into the working directory; elm-test starts only after elm-doc-test has
\* exited.
C6_FixedOrder ==
    /\ (shpc # "idle" \/ docState # "none" \/ testState # "none") =>
          (wrote /\ outFile.text = elm_src)
    /\ docState # "none" => cdState = "ok"
    /\ testState # "none" => docState = "exited"

C6_Witness ==
    /\ testState = "exited"
    /\ docState = "exited"
    /\ wrote
    /\ pc = "exited"

\* --------------------------------------------------------------------- C7
\* C7 as stated: when the test runner has run, the script exits with
\* success exactly when system() reported success for the command line.
C7_ExitStatusFollowsSystem ==
    (pc = "exited" /\ testState = "exited") =>
        (exitStatus = << 0 >> <=> sysResult = << 0 >>)

\* --------------------------------------------------------------------- C8
\* C8 as stated: when no shell could be run for the command line, the
\* script ends with an error, not with a normal exit.
C8_SpawnFailureIsFatal ==
    (pc = "exited" /\ spawnFailed) => exitStatus # << 0 >>

\* --------------------------------------------------------------------- C9
\* C9: with more than one marker in the README, examples is the text after
\* the first occurrence: the README is the text before the first marker,
\* the marker, then examples, and examples holds every later occurrence.
C9_SplitAtFirstMarker ==
    (Partitioned /\ MarkerCount >= 2) =>
        LET first == Min(Occurrences(readme, Marker))
        IN  /\ examples = After(first)
            /\ readme = SubSeq(readme, 1, first - 1) \o Marker \o examples
            /\ Cardinality(Occurrences(examples, Marker)) = MarkerCount - 1

C9_Witness ==
    /\ Partitioned
    /\ MarkerCount >= 2
    /\ Min(Occurrences(readme, Marker)) > 1
    /\ pc = "exited"

\* -------------------------------------------------------------------- C10
\* C10: elm-test starts only if the cd succeeded and elm-doc-test exited
\* with status 0; after a failed cd neither tool runs; after a failing
\* elm-doc-test elm-test is never started.
C10_AndChain ==
    /\ testState # "none" =>
          (cdState = "ok" /\ docState = "exited" /\ docCode = 0)
    /\ cdState = "fail" => (docState = "none" /\ testState = "none")
    /\ (docState = "exited" /\ docCode # 0) => testState = "none"

C10_Witness ==
    /\ docState = "exited"
    /\ docCode # 0
    /\ testState = "none"
    /\ pc = "exited"

====
